---- MODULE Spec2Model ----
(***************************************************************************)
(* Model of the real-time sentiment pipeline of the meeting backend:       *)
(*   - SentimentService.analyze_text      (services/sentiment_service.py)  *)
(*   - SentimentTrendTracker              (services/sentiment_service.py)  *)
(*   - STTService.stream_recognize        (services/stt_service.py)        *)
(*   - EmailService.send_sentiment_alert  (services/email_service.py)      *)
(*   - websocket_endpoint                 (main.py)                        *)
(*   - the chunk buffer of a session, of which the repository holds only   *)
(*     the consumer; it is modelled from the specification                 *)
(*   - SentimentAnalyzer.is_negative_sentiment                             *)
(*                                        (services/sentiment_analyzer.py) *)
(*   - STTService.ensure_model called from several threads                 *)
(*   - AdvancedMeetBot: join, monitor, leave (selenium-bot/src/meet_bot.py)*)
(*   - detailed_health_check              (main.py)                        *)
(*   - the session registry and the pipeline task of a session, modelled   *)
(*     from the specification like the chunk buffer                        *)
(*                                                                         *)
(* Units.  Compound scores and thresholds are integers in hundredths       *)
(* (-0.5 is -50, 0.05 is 5); the arithmetic of the code is taken as exact  *)
(* real arithmetic, so a mean is a fraction <<numerator, denominator>>.    *)
(* time.time() is an integer number of seconds; it never decreases except  *)
(* under TrackerBackSpec, where the wall clock is set back once.           *)
(* datetime.now() of the email service is counted in units of 150 seconds. *)
(***************************************************************************)
EXTENDS Integers, Sequences, FiniteSets, TLC

\* ------------------------------------------------------------------ bounds
MaxTime == 4
MaxAdds == 3
CompoundRange == 100
MaxChunks == 3
MaxPairChunks == 1
MaxMailTime == 2
MaxAttempts == 3
MaxFrames == 2
MaxPushes == 3
MaxLoaderCalls == 4
MaxRequests == 3
MaxBotCalls == 4
MaxSessions == 2
MaxAppends == 2

\* _check_rate_limit: 300 seconds, counted in units of 150 seconds
RateLimitUnits == 2

\* window_seconds given to the constructor, duration_sec and threshold given
\* to sustained_negative, compound values given to add: a duration shorter
\* than, equal to and longer than the window; means below, at and above the
\* threshold
Windows == {1, 2}
Durations == {1, 2, 3}
Thresholds == {-50, 20}
TrackerCompounds == {-50, 90}

VARIABLES
    \* SentimentTrendTracker
    clock,           \* time.time()
    window_seconds,  \* self.window_seconds
    samples,         \* self.samples: deque of <<timestamp, compound>>
    added,           \* history: every <<timestamp, compound>> ever given to add
    evictedAt,       \* history: time of the last _evict_old, -1 before the first
    ret,             \* the last call of the tracker and what it returned
    backward,        \* history: time.time() has stepped backwards
    \* SentimentService
    score,           \* the last SentimentScore returned by analyze_text
    \* STTService.stream_recognize: one call, and a second call running beside it
    stt,
    stt2,
    \* EmailService
    mail,
    \* websocket_endpoint
    ws,
    \* the chunk buffer of a session
    buf,
    \* SentimentAnalyzer.is_negative_sentiment: the last call
    neg,
    \* STTService.ensure_model: the class and the threads calling it
    loader,
    \* GoogleMeetBot: its status and the call in progress
    bot,
    \* detailed_health_check: one request
    health,
    \* the session registry and the pipeline tasks of its sessions
    reg

vars == <<clock, window_seconds, samples, added, evictedAt, ret, backward,
          score, stt, stt2, mail, ws, buf, neg, loader, bot, health, reg>>

\* what a step of one component leaves alone
trackerVars == <<clock, window_seconds, samples, added, evictedAt, ret, backward>>
pipelineVars == <<score, stt, stt2, mail, ws, buf>>
exceptTracker == <<pipelineVars, neg, loader, bot, health, reg>>
exceptScorer == <<trackerVars, stt, stt2, mail, ws, buf, neg, loader, bot, health, reg>>
exceptStt == <<trackerVars, score, stt2, mail, ws, buf, neg, loader, bot, health, reg>>
exceptStt2 == <<trackerVars, score, stt, mail, ws, buf, neg, loader, bot, health, reg>>
exceptMail == <<trackerVars, score, stt, stt2, ws, buf, neg, loader, bot, health, reg>>
exceptWs == <<trackerVars, score, stt, stt2, mail, buf, neg, loader, bot, health, reg>>
exceptBuf == <<trackerVars, score, stt, stt2, mail, ws, neg, loader, bot, health, reg>>
exceptNeg == <<trackerVars, pipelineVars, loader, bot, health, reg>>
exceptLoader == <<trackerVars, pipelineVars, neg, bot, health, reg>>
exceptBot == <<trackerVars, pipelineVars, neg, loader, health, reg>>
exceptHealth == <<trackerVars, pipelineVars, neg, loader, bot, reg>>
exceptReg == <<trackerVars, pipelineVars, neg, loader, bot, health>>

\* ------------------------------------------------------------ arithmetic
Min(a, b) == IF a <= b THEN a ELSE b

RECURSIVE SumValues(_)
SumValues(s) == IF s = <<>> THEN 0 ELSE s[1] + SumValues(Tail(s))

RECURSIVE ValuesOf(_)
ValuesOf(s) == IF s = <<>> THEN <<>> ELSE <<s[1][2]>> \o ValuesOf(Tail(s))

\* equality of two fractions <<n, d>> with d > 0
RatEq(a, b) == a[1] * b[2] = b[1] * a[2]

\* ------------------------------------------------- SentimentTrendTracker
EvictOldOnce(s, t, w) ==
    IF s # <<>> /\ s[1][1] < t - w THEN Tail(s) ELSE s

EvictOldInclusive(s, t, w) ==
    SelectSeq(s, LAMBDA x : x[1] > t - w)

\* _evict_old: pop from the left while the head is older than now - window
RECURSIVE EvictOld(_, _, _)
EvictOld(s, t, w) ==
    IF s # <<>> /\ s[1][1] < t - w THEN EvictOld(Tail(s), t, w) ELSE s

AverageOfAll(s) ==
    IF s = <<>> THEN <<0, 1>> ELSE <<SumValues(ValuesOf(s)), Len(s) + 1>>

\* average: 0.0 when empty, else sum(v) / len(samples)
Average(s) ==
    IF s = <<>> THEN <<0, 1>> ELSE <<SumValues(ValuesOf(s)), Len(s)>>

LookbackValuesNoEvict(s, t, w, d) ==
    ValuesOf(SelectSeq(s, LAMBDA x : x[1] >= t - d))

\* the list `values` of sustained_negative, after its _evict_old
LookbackValues(s, t, w, d) ==
    ValuesOf(SelectSeq(EvictOld(s, t, w), LAMBDA x : x[1] >= t - d))

SustainedNegativeNeedsTwo(s, t, w, th, d) ==
    LET values == LookbackValues(s, t, w, d)
    IN  Len(values) >= 2 /\ SumValues(values) <= th * Len(values)

SustainedNegativeStrict(s, t, w, th, d) ==
    LET values == LookbackValues(s, t, w, d)
    IN  values # <<>> /\ SumValues(values) < th * Len(values)

\* the value sustained_negative returns: avg <= threshold, len(values) > 0
SustainedNegative(s, t, w, th, d) ==
    LET values == LookbackValues(s, t, w, d)
    IN  IF EvictOld(s, t, w) = <<>> THEN FALSE
        ELSE IF values = <<>> THEN FALSE
        ELSE SumValues(values) <= th * Len(values)

EvictedByDuration(s, t, w, d) == EvictOld(s, t, d)

\* self.samples after sustained_negative: its self._evict_old(now)
EvictedBySustained(s, t, w, d) == EvictOld(s, t, w)

NoCall == [op |-> "none", at |-> 0, th |-> 0, d |-> 0, res |-> FALSE,
           avg |-> <<0, 1>>, used |-> <<>>]

TrackerInit ==
    /\ clock = 0
    /\ window_seconds \in Windows
    /\ samples = <<>>
    /\ added = <<>>
    /\ evictedAt = -1
    /\ ret = NoCall
    /\ backward = FALSE

\* time passes between two calls
Tick ==
    /\ clock < MaxTime
    /\ clock' = clock + 1
    /\ UNCHANGED <<window_seconds, samples, added, evictedAt, ret, backward, exceptTracker>>

add(compound) ==
    /\ Len(added) < MaxAdds
    /\ samples' = EvictOld(Append(samples, <<clock, compound>>), clock, window_seconds)
    /\ added' = Append(added, <<clock, compound>>)
    /\ evictedAt' = clock
    /\ ret' = [NoCall EXCEPT !.op = "add", !.at = clock]
    /\ UNCHANGED <<clock, window_seconds, backward, exceptTracker>>

average ==
    /\ ret' = [NoCall EXCEPT !.op = "average", !.at = clock, !.avg = Average(samples)]
    /\ UNCHANGED <<clock, window_seconds, samples, added, evictedAt, backward, exceptTracker>>

sustained_negative(threshold, duration_sec) ==
    /\ samples' = EvictedBySustained(samples, clock, window_seconds, duration_sec)
    /\ evictedAt' = clock
    /\ ret' = [NoCall EXCEPT
                 !.op = "sustained_negative", !.at = clock,
                 !.th = threshold, !.d = duration_sec,
                 !.res = SustainedNegative(samples, clock, window_seconds,
                                           threshold, duration_sec),
                 !.used = LookbackValues(samples, clock, window_seconds, duration_sec)]
    /\ UNCHANGED <<clock, window_seconds, added, backward, exceptTracker>>

\* time.time() is the wall clock: an adjustment sets it back between two
\* calls; one adjustment is followed
TickBack ==
    /\ ~backward
    /\ clock > 0
    /\ clock' = clock - 1
    /\ backward' = TRUE
    /\ UNCHANGED <<window_seconds, samples, added, evictedAt, ret, exceptTracker>>

TrackerNext ==
    \/ Tick
    \/ \E c \in TrackerCompounds : add(c)
    \/ average
    \/ \E th \in Thresholds, d \in Durations : sustained_negative(th, d)

\* ------------------------------------------------------- SentimentService
\* what analyzer.polarity_scores can hand back: a dict that holds a compound
\* in [-1, 1] or holds none
AnalyzerScores ==
    [has : {TRUE}, compound : (-CompoundRange)..CompoundRange,
     pos : {0, 100}, neu : {0, 100}, neg : {0, 100}]
        \cup [has : {FALSE}, compound : {0},
              pos : {0, 100}, neu : {0, 100}, neg : {0, 100}]

\* scores.get("compound", 0.0)
GetCompound(scores) == IF scores.has THEN scores.compound ELSE 0

LabelExclusive(compound) ==
    IF compound > 5 THEN "positive"
    ELSE IF compound < -5 THEN "negative"
    ELSE "neutral"

\* the label expression of analyze_text (0.05 is 5 hundredths)
Label(compound) ==
    IF compound >= 5 THEN "positive"
    ELSE IF compound <= -5 THEN "negative"
    ELSE "neutral"

NoScore == [called |-> FALSE,
            given |-> [has |-> FALSE, compound |-> 0, pos |-> 0, neu |-> 0, neg |-> 0],
            compound |-> 0, pos |-> 0, neu |-> 0, neg |-> 0, label |-> "neutral"]

ScorerInit == score = NoScore

\* analyze_text; `given` keeps what the analyzer returned for this text
analyze_text(scores) ==
    /\ score' = [called |-> TRUE,
                 given |-> scores,
                 compound |-> GetCompound(scores),
                 pos |-> scores.pos, neu |-> scores.neu, neg |-> scores.neg,
                 label |-> Label(GetCompound(scores))]
    /\ UNCHANGED exceptScorer

ScorerNext == \E scores \in AnalyzerScores : analyze_text(scores)

\* ------------------------------------------- STTService.stream_recognize
\* A chunk is one of two byte strings; a text is a string over a blank "_"
\* and a letter "w".
ChunkVals == {1, 2}
Chars == {"_", "w"}

SeqsUpTo(S, n) == UNION {[1..k -> S] : k \in 0..n}

Texts == SeqsUpTo(Chars, 2)

\* what Result(), PartialResult() and FinalResult() can hand back: a string
\* that is no JSON, or an object that holds the key read or does not
RecognizerJson == [valid : BOOLEAN, has : BOOLEAN, value : Texts]

RECURSIVE LStrip(_)
LStrip(s) == IF s # <<>> /\ s[1] = "_" THEN LStrip(Tail(s)) ELSE s

RECURSIVE RStrip(_)
RStrip(s) ==
    IF s # <<>> /\ s[Len(s)] = "_" THEN RStrip(SubSeq(s, 1, Len(s) - 1)) ELSE s

\* str.strip()
Strip(s) == RStrip(LStrip(s))

ParseTextOfAnything(json) ==
    IF ~json.has THEN <<>> ELSE Strip(json.value)

ParseTextNoStrip(json) ==
    IF ~json.valid THEN <<>>
    ELSE IF ~json.has THEN <<>>
    ELSE json.value

\* json.loads, data.get(key, "").strip(), "" on JSONDecodeError
ParseText(json) ==
    IF ~json.valid THEN <<>>
    ELSE IF ~json.has THEN <<>>
    ELSE Strip(json.value)

NextChunkFromEnd(rest) == rest[Len(rest)]

\* the chunk the for loop takes from pcm_chunks
NextChunk(rest) == Head(rest)

RestAfterKeep(rest) == rest

\* pcm_chunks after the for loop took a chunk
RestAfter(rest) == Tail(rest)

NoResult == [text |-> <<>>, is_final |-> FALSE, src |-> 0]

\* a recognizer output in which json.loads and .strip() leave no character
IsBlank(json) ==
    \/ ~json.valid
    \/ ~json.has
    \/ \A i \in DOMAIN json.value : json.value[i] = "_"

EndOfStreamEarly(rest) == Len(rest) <= 1

\* the for loop ends when pcm_chunks has nothing left to give
EndOfStream(rest) == rest = <<>>

OtherCallAfterRaiseShared(other) ==
    [other EXCEPT !.pc = IF @ \in {"done", "failed"} THEN @ ELSE "failed"]

\* what a raise of AcceptWaveform in one call does to another running call:
\* the recognizer is a local of the call, the exception leaves through the
\* generator that raised it
OtherCallAfterRaise(other) == other

\* a call of stream_recognize(pcm_chunks, sample_rate_hz) before its first step
SttStart(in) ==
    [pc |-> "start",
     input |-> in,          \* history: the chunks supplied
     rest |-> in,           \* pcm_chunks, what it has yet to give
     chunk |-> 0,           \* the loop variable
     accepted |-> <<>>,     \* history: what AcceptWaveform was given
     outputs |-> 0,         \* history: recognizer outputs read so far
     blank |-> 0,           \* history: those of them that were blank
     invalid |-> 0,         \* history: those of them that were no JSON
     ends |-> {},           \* history: the chunks AcceptWaveform answered true for
     produced |-> 0,        \* history: non-empty texts obtained so far
     pending |-> NoResult,  \* the STTResult about to be yielded
     yielded |-> <<>>,      \* history: the STTResults yielded
     flushed |-> 0,         \* history: calls of FinalResult
     flushOut |-> "none"]   \* history: FinalResult gave "blank" or "text"

SttInit == \E in \in SeqsUpTo(ChunkVals, MaxChunks) : stt = SttStart(in)

\* the second call is given no chunk or one
SecondInputs == {<<>>, <<1>>, <<2>>}

Stt2Init == \E in \in SecondInputs : stt2 = SttStart(in)

\* ensure_model and the construction of the recognizer, either of which can raise
EnsureModelTo(s, ok) == [s EXCEPT !.pc = IF ok THEN "loop" ELSE "failed"]

\* for chunk in pcm_chunks
PullChunkTo(s) ==
    IF EndOfStream(s.rest)
    THEN [s EXCEPT !.pc = "flush"]
    ELSE [s EXCEPT !.pc = "accept",
                   !.chunk = NextChunk(s.rest),
                   !.rest = RestAfter(s.rest)]

IsFinalAlways(outcome) == TRUE

\* is_final of the STTResult of a chunk: True in the branch taken when
\* AcceptWaveform answered true, False in the other
IsFinal(outcome) == outcome = "final"

\* the loop body up to its yield: AcceptWaveform(chunk), which answers "final",
\* "partial" or raises, then Result() or PartialResult() and its parsing
AcceptWaveformTo(s, outcome, json) ==
    LET text == ParseText(json)
        got == [s EXCEPT !.accepted = Append(@, s.chunk)]
        read == [got EXCEPT !.outputs = @ + 1,
                            !.blank = IF IsBlank(json) THEN @ + 1 ELSE @,
                            !.invalid = IF json.valid THEN @ ELSE @ + 1,
                            !.ends = IF outcome = "final"
                                     THEN @ \cup {Len(got.accepted)} ELSE @]
    IN  IF outcome = "raise" THEN [got EXCEPT !.pc = "failed"]
        ELSE IF text # <<>>
        THEN [read EXCEPT !.pc = "yield",
                          !.produced = @ + 1,
                          !.pending = [text |-> text,
                                       is_final |-> IsFinal(outcome),
                                       src |-> Len(got.accepted)]]
        ELSE [read EXCEPT !.pc = "loop"]

\* yield STTResult(...): the generator hands the result over and is suspended
YieldResultTo(s) ==
    [s EXCEPT !.pc = "suspended", !.yielded = Append(@, s.pending)]

\* the consumer asks for the next result: after a chunk's result the loop goes
\* on, after the flush result (src 0) the generator returns
ResumeTo(s) ==
    [s EXCEPT !.pc = IF s.pending.src = 0 THEN "done" ELSE "loop",
              !.pending = NoResult]

\* after the loop: FinalResult() and its parsing
FinalResultTo(s, json) ==
    LET text == ParseText(json)
        got == [s EXCEPT !.flushed = @ + 1,
                         !.outputs = @ + 1,
                         !.blank = IF IsBlank(json) THEN @ + 1 ELSE @,
                         !.invalid = IF json.valid THEN @ ELSE @ + 1,
                         !.flushOut = IF IsBlank(json) THEN "blank" ELSE "text"]
    IN  IF text # <<>>
        THEN [got EXCEPT !.pc = "yield",
                         !.produced = @ + 1,
                         !.pending = [text |-> text, is_final |-> TRUE, src |-> 0]]
        ELSE [got EXCEPT !.pc = "done"]

RecognizerOutcomes == {"final", "partial", "raise"}

\* the first call
ensure_model(ok) ==
    /\ stt.pc = "start"
    /\ stt' = EnsureModelTo(stt, ok)
    /\ UNCHANGED exceptStt

PullChunk ==
    /\ stt.pc = "loop"
    /\ stt' = PullChunkTo(stt)
    /\ UNCHANGED exceptStt

AcceptWaveform(outcome, json) ==
    /\ stt.pc = "accept"
    /\ stt' = AcceptWaveformTo(stt, outcome, json)
    /\ stt2' = IF outcome = "raise" THEN OtherCallAfterRaise(stt2) ELSE stt2
    /\ UNCHANGED <<trackerVars, score, mail, ws, buf, neg, loader, bot, health, reg>>

YieldResult ==
    /\ stt.pc = "yield"
    /\ stt' = YieldResultTo(stt)
    /\ UNCHANGED exceptStt

Resume ==
    /\ stt.pc = "suspended"
    /\ stt' = ResumeTo(stt)
    /\ UNCHANGED exceptStt

FinalResult(json) ==
    /\ stt.pc = "flush"
    /\ stt' = FinalResultTo(stt, json)
    /\ UNCHANGED exceptStt

SttNext ==
    \/ \E ok \in BOOLEAN : ensure_model(ok)
    \/ PullChunk
    \/ \E outcome \in RecognizerOutcomes, json \in RecognizerJson :
           AcceptWaveform(outcome, json)
    \/ YieldResult
    \/ Resume
    \/ \E json \in RecognizerJson : FinalResult(json)

\* the second call
ensure_model2(ok) ==
    /\ stt2.pc = "start"
    /\ stt2' = EnsureModelTo(stt2, ok)
    /\ UNCHANGED exceptStt2

PullChunk2 ==
    /\ stt2.pc = "loop"
    /\ stt2' = PullChunkTo(stt2)
    /\ UNCHANGED exceptStt2

AcceptWaveform2(outcome, json) ==
    /\ stt2.pc = "accept"
    /\ stt2' = AcceptWaveformTo(stt2, outcome, json)
    /\ stt' = IF outcome = "raise" THEN OtherCallAfterRaise(stt) ELSE stt
    /\ UNCHANGED <<trackerVars, score, mail, ws, buf, neg, loader, bot, health, reg>>

YieldResult2 ==
    /\ stt2.pc = "yield"
    /\ stt2' = YieldResultTo(stt2)
    /\ UNCHANGED exceptStt2

Resume2 ==
    /\ stt2.pc = "suspended"
    /\ stt2' = ResumeTo(stt2)
    /\ UNCHANGED exceptStt2

FinalResult2(json) ==
    /\ stt2.pc = "flush"
    /\ stt2' = FinalResultTo(stt2, json)
    /\ UNCHANGED exceptStt2

Stt2Next ==
    \/ \E ok \in BOOLEAN : ensure_model2(ok)
    \/ PullChunk2
    \/ \E outcome \in RecognizerOutcomes, json \in RecognizerJson :
           AcceptWaveform2(outcome, json)
    \/ YieldResult2
    \/ Resume2
    \/ \E json \in RecognizerJson : FinalResult2(json)

\* ------------------------------------------------------------ EmailService
\* A call of send_sentiment_alert runs without interruption up to
\* `await self.mail_client.send_message(message)` and, once the delivery has
\* ended, from there to its return.
Tasks == {1, 2}
MailSessions == {"m1", "m2"}
RecipientLists == {<<"a", "b">>, <<"b", "a">>, <<"c">>}

RateLimitKeyWithSession(session, recipients) ==
    <<session, {recipients[i] : i \in DOMAIN recipients}>>

\* f"{email_type}_{hash(tuple(sorted(recipients)))}": the key holds the email
\* type and the recipients whatever their order, and nothing of the session
RateLimitKey(session, recipients) ==
    <<"sentiment_alert", {recipients[i] : i \in DOMAIN recipients}>>

RateLimitKeys ==
    {<<p, {r[i] : i \in DOMAIN r}>> :
        p \in MailSessions \cup {"sentiment_alert"}, r \in RecipientLists}

CheckRateLimitInclusive(table, key, now) ==
    ~(table[key] >= 0 /\ now - table[key] <= RateLimitUnits)

\* _check_rate_limit for email_type "sentiment_alert"; -1 stands for no entry
CheckRateLimit(table, key, now) ==
    ~(table[key] >= 0 /\ now - table[key] < RateLimitUnits)

AfterFailureSilent(m) == m

AfterFailureCountsSent(m) ==
    [m EXCEPT !.total_failed = @ + 1, !.last_error = TRUE, !.total_sent = @ + 1]

\* the except block of send_sentiment_alert
AfterFailure(m) ==
    [m EXCEPT !.total_failed = @ + 1, !.last_error = TRUE]

\* after send_message has returned: the metrics, then _update_rate_limit
AfterSend(m, key) ==
    [m EXCEPT !.total_sent = @ + 1, !.alerts_sent = @ + 1, !.last_sent = m.now,
              !.rate_limit[key] = m.now]

RecipientSet(recipients) == {recipients[i] : i \in DOMAIN recipients}

NoTask == [pc |-> "idle", call |-> 0, session |-> "", recipients |-> <<>>]

NoReturn == [call |-> 0, result |-> "none"]

MailInit ==
    \E configured \in BOOLEAN :
        mail = [client |-> configured,        \* self.mail_client is set
                now |-> 0,                     \* datetime.now()
                rate_limit |-> [k \in RateLimitKeys |-> -1],
                total_sent |-> 0, total_failed |-> 0, alerts_sent |-> 0,
                summaries_sent |-> 0,
                last_sent |-> -1, last_error |-> FALSE,
                task |-> [t \in Tasks |-> NoTask],
                calls |-> 0,                   \* history: calls made
                others |-> 0,                  \* history: calls for other emails
                sends |-> 0,                   \* history: calls of send_message
                ret |-> NoReturn,              \* history: the last call to return
                overlapped |-> FALSE,          \* history: a call began during another
                \* history: when an alert last went out, by session and by
                \* set of recipients
                lastFor |-> [m \in MailSessions |-> -1],
                lastTo |-> [r \in {RecipientSet(l) : l \in RecipientLists} |-> -1]]

MailTick ==
    /\ mail.now < MaxMailTime
    /\ mail' = [mail EXCEPT !.now = @ + 1]
    /\ UNCHANGED exceptMail

\* a call up to its first return or to its await; `rendered` says whether
\* get_template and render went through
send_sentiment_alert(t, session, recipients, rendered) ==
    /\ mail.task[t].pc = "idle"
    /\ mail.calls + mail.others < MaxAttempts
    /\ LET key == RateLimitKey(session, recipients)
           n == mail.calls + 1
           called == [mail EXCEPT !.calls = n,
                                  !.overlapped = @ \/ \E u \in Tasks :
                                                         mail.task[u].pc = "sending"]
           returns(result) == [call |-> n, result |-> result]
       IN  mail' =
             IF ~mail.client
             THEN [called EXCEPT !.ret = returns("unconfigured")]
             ELSE IF ~CheckRateLimit(mail.rate_limit, key, mail.now)
             THEN [called EXCEPT !.ret = returns("limited")]
             ELSE IF ~rendered
             THEN [AfterFailure(called) EXCEPT !.ret = returns("failed")]
             ELSE [called EXCEPT !.sends = @ + 1,
                                 !.task[t] = [pc |-> "sending", call |-> n,
                                              session |-> session,
                                              recipients |-> recipients]]
    /\ UNCHANGED exceptMail

\* send_message ends, delivered or raising, and the call runs to its return
Deliver(t, delivered) ==
    /\ mail.task[t].pc = "sending"
    /\ LET a == mail.task[t]
           key == RateLimitKey(a.session, a.recipients)
       IN  mail' =
             IF delivered
             THEN [AfterSend(mail, key) EXCEPT
                      !.lastFor[a.session] = mail.now,
                      !.lastTo[RecipientSet(a.recipients)] = mail.now,
                      !.ret = [call |-> a.call, result |-> "sent"],
                      !.task[t] = NoTask]
             ELSE [AfterFailure(mail) EXCEPT
                      !.ret = [call |-> a.call, result |-> "failed"],
                      !.task[t] = NoTask]
    /\ UNCHANGED exceptMail

\* send_session_summary, from call to return: nothing without a mail client,
\* else the metrics of a delivery or of a failure
send_session_summary(delivered) ==
    /\ mail.calls + mail.others < MaxAttempts
    /\ mail' = IF ~mail.client
               THEN [mail EXCEPT !.others = @ + 1]
               ELSE IF delivered
               THEN [mail EXCEPT !.others = @ + 1,
                                 !.total_sent = @ + 1,
                                 !.summaries_sent = @ + 1,
                                 !.last_sent = mail.now]
               ELSE [mail EXCEPT !.others = @ + 1, !.total_failed = @ + 1]
    /\ UNCHANGED exceptMail

\* send_error_notification, from call to return
send_error_notification(delivered) ==
    /\ mail.calls + mail.others < MaxAttempts
    /\ mail' = IF ~mail.client
               THEN [mail EXCEPT !.others = @ + 1]
               ELSE IF delivered
               THEN [mail EXCEPT !.others = @ + 1,
                                 !.total_sent = @ + 1,
                                 !.last_sent = mail.now]
               ELSE [mail EXCEPT !.others = @ + 1, !.total_failed = @ + 1]
    /\ UNCHANGED exceptMail

MailNext ==
    \/ MailTick
    \/ \E t \in Tasks, m \in MailSessions, r \in RecipientLists, rendered \in BOOLEAN :
           send_sentiment_alert(t, m, r, rendered)
    \/ \E t \in Tasks, delivered \in BOOLEAN : Deliver(t, delivered)
    \/ \E delivered \in BOOLEAN : send_session_summary(delivered)
    \/ \E delivered \in BOOLEAN : send_error_notification(delivered)

\* ------------------------------------------------------ websocket_endpoint
\* What an await of the endpoint can raise: WebSocketDisconnect, another
\* Exception of the transport, or asyncio.CancelledError, a BaseException.
TransportErrors == {"disconnect", "error"}
Raisable == TransportErrors \cup {"cancel"}

CaughtNever(kind) == FALSE

\* except Exception as e
Caught(kind) == kind \in TransportErrors

\* a connection before websocket.accept()
WsStart(manager) ==
    [pc |-> "new",
     has_manager |-> manager,   \* hasattr(app.state, 'bot_manager')
     added |-> 0,               \* history: calls of add_websocket_client
     removed |-> 0,             \* history: calls of remove_websocket_client
     frames |-> 0,              \* history: messages received
     beats |-> 0,               \* history: heartbeats sent
     errorAt |-> "none",        \* history: the await inside the try that raised
     errorKind |-> "none",
     caught |-> FALSE,          \* history: the except clause ran
     propagated |-> "none"]     \* history: the await whose exception left the endpoint

WsInit == \E manager \in BOOLEAN : ws = WsStart(manager)

\* an await inside the try raises: the except clause if it matches, then finally
RaiseInTry(s, at, kind) ==
    [s EXCEPT !.pc = "finally", !.errorAt = at, !.errorKind = kind,
              !.caught = Caught(kind)]

\* await websocket.accept(), outside the try
Accept(outcome) ==
    /\ ws.pc = "new"
    /\ ws' = IF outcome = "ok"
             THEN [ws EXCEPT !.pc = "register"]
             ELSE [ws EXCEPT !.pc = "closed", !.propagated = "accept"]
    /\ UNCHANGED exceptWs

\* if hasattr(app.state, 'bot_manager'): await add_websocket_client(...)
Register(outcome) ==
    /\ ws.pc = "register"
    /\ ws' = IF ~ws.has_manager
             THEN [ws EXCEPT !.pc = "waiting"]
             ELSE IF outcome = "ok"
             THEN [ws EXCEPT !.pc = "waiting", !.added = @ + 1]
             ELSE RaiseInTry([ws EXCEPT !.added = @ + 1], "register", outcome)
    /\ UNCHANGED exceptWs

\* await asyncio.wait_for(websocket.receive_text(), timeout=30.0)
Receive(outcome) ==
    /\ ws.pc = "waiting"
    /\ (outcome = "frame") => ws.frames < MaxFrames
    /\ (outcome = "timeout") => ws.beats < MaxFrames
    /\ ws' = IF outcome = "frame" THEN [ws EXCEPT !.frames = @ + 1]
             ELSE IF outcome = "timeout" THEN [ws EXCEPT !.pc = "heartbeat"]
             ELSE RaiseInTry(ws, "receive", outcome)
    /\ UNCHANGED exceptWs

\* except asyncio.TimeoutError: await websocket.send_text(heartbeat)
SendHeartbeat(outcome) ==
    /\ ws.pc = "heartbeat"
    /\ ws' = IF outcome = "ok"
             THEN [ws EXCEPT !.pc = "waiting", !.beats = @ + 1]
             ELSE RaiseInTry(ws, "send", outcome)
    /\ UNCHANGED exceptWs

\* finally: remove_websocket_client if there is a bot manager; an exception
\* the except clause did not take, or one raised here, leaves the endpoint
Finally(outcome) ==
    /\ ws.pc = "finally"
    /\ LET left == IF ws.caught THEN "none" ELSE ws.errorAt
       IN  ws' = IF ~ws.has_manager
                 THEN [ws EXCEPT !.pc = "closed", !.propagated = left]
                 ELSE IF outcome = "ok"
                 THEN [ws EXCEPT !.pc = "closed", !.removed = @ + 1,
                                 !.propagated = left]
                 ELSE [ws EXCEPT !.pc = "closed", !.removed = @ + 1,
                                 !.propagated = "remove"]
    /\ UNCHANGED exceptWs

WsNext ==
    \/ \E outcome \in {"ok", "error"} : Accept(outcome)
    \/ \E outcome \in {"ok"} \cup Raisable : Register(outcome)
    \/ \E outcome \in {"frame", "timeout"} \cup Raisable : Receive(outcome)
    \/ \E outcome \in {"ok"} \cup Raisable : SendHeartbeat(outcome)
    \/ \E outcome \in {"ok", "error"} : Finally(outcome)

\* ------------------------------------------------------------ Chunk Buffer
\* The buffer between the connection task, its one producer, and the pipeline
\* task, its one consumer, as section 4.2 of the specification describes it.
\* pop(): the next chunk in FIFO order
PopNext(queue) == Head(queue)

ExhaustedOnClose(queue, closed) == closed

\* pop(): empty and closed signals end-of-stream
Exhausted(queue, closed) == closed /\ queue = <<>>

BufStart ==
    [queue |-> <<>>,
     closed |-> FALSE,
     consumer |-> "ready",     \* "suspended" inside pop(), "ended" after end-of-stream
     pushed |-> <<>>,          \* history: the chunks push() accepted
     refused |-> 0,            \* history: calls of push() that failed
     atClose |-> -1,           \* history: how many chunks were accepted at close()
     popped |-> <<>>,          \* history: the chunks pop() returned
     eos |-> 0]                \* history: end-of-stream signals given

BufInit == buf = BufStart

\* push(bytes): fails only if the buffer has been closed
push(bytes) ==
    /\ Len(buf.pushed) < MaxPushes
    /\ buf.refused < MaxPushes
    /\ buf' = IF buf.closed
              THEN [buf EXCEPT !.refused = @ + 1]
              ELSE [buf EXCEPT !.queue = Append(@, bytes),
                               !.pushed = Append(@, bytes)]
    /\ UNCHANGED exceptBuf

\* close(): marks the buffer closed
close ==
    /\ ~buf.closed
    /\ buf' = [buf EXCEPT !.closed = TRUE, !.atClose = Len(buf.pushed)]
    /\ UNCHANGED exceptBuf

\* pop() by the consumer, or its resumption once a chunk has arrived or the
\* buffer has been closed
pop ==
    /\ \/ buf.consumer = "ready"
       \/ buf.consumer = "suspended" /\ (buf.queue # <<>> \/ buf.closed)
    /\ buf' = IF Exhausted(buf.queue, buf.closed)
              THEN [buf EXCEPT !.consumer = "ended", !.eos = @ + 1]
              ELSE IF buf.queue # <<>>
              THEN [buf EXCEPT !.consumer = "ready",
                               !.popped = Append(@, PopNext(buf.queue)),
                               !.queue = Tail(@)]
              ELSE [buf EXCEPT !.consumer = "suspended"]
    /\ UNCHANGED exceptBuf

BufNext ==
    \/ \E bytes \in ChunkVals : push(bytes)
    \/ close
    \/ pop

\* ------------------------------- SentimentAnalyzer.is_negative_sentiment
\* Settings.SENTIMENT_THRESHOLD_POSITIVE, in hundredths
ThresholdPositive == 10

\* SENTIMENT_MODEL and SENTIMENT_THRESHOLD_NEGATIVE as the environment can set
\* them: the default -0.1 and a stricter -0.5
SentimentModels == {"vader", "textblob", "transformers"}
NegativeThresholds == {-10, -50}

\* the threshold argument: None when the caller supplies none
NoThreshold == [given |-> FALSE, value |-> 0]
SuppliedThresholds == {NoThreshold} \cup [given : {TRUE}, value : {0, 30, 60}]

\* what the configured model hands back for a text: a compound or polarity
\* (vader, textblob), the best label with its score (transformers), or an
\* exception (analyzer not initialized, an unexpected result shape)
ModelFailed == [kind |-> "raise", compound |-> 0, label |-> "none", score |-> 0]
ModelOutcomes(model) ==
    {ModelFailed} \cup
    IF model \in {"vader", "textblob"}
    THEN [kind : {"compound"}, compound : {-90, -50, -30, -10, -5, 0, 20},
          label : {"none"}, score : {0}]
    ELSE [kind : {"best"}, compound : {0},
          label : {"positive", "negative", "neutral"}, score : {40, 90}]

Abs(x) == IF x < 0 THEN -x ELSE x

AnalysisFailed == [ok |-> FALSE, label |-> "none", confidence |-> 0]

\* analyze_text: raises on an empty text and when the model raises; vader and
\* textblob label by the configured thresholds with confidence |compound|,
\* transformers by the best label with its score
AnalyzeText(model, threshold_negative, empty, out) ==
    IF empty \/ out.kind = "raise" THEN AnalysisFailed
    ELSE IF model \in {"vader", "textblob"}
    THEN [ok |-> TRUE,
          label |-> IF out.compound >= ThresholdPositive THEN "positive"
                    ELSE IF out.compound <= threshold_negative THEN "negative"
                    ELSE "neutral",
          confidence |-> Abs(out.compound)]
    ELSE [ok |-> TRUE, label |-> out.label, confidence |-> out.score]

\* threshold or abs(self.sentiment_config["threshold_negative"]): None and
\* 0.0 are both falsy
ThresholdUsed(th, threshold_negative) ==
    IF th.given /\ th.value # 0 THEN th.value ELSE Abs(threshold_negative)

\* the value is_negative_sentiment returns
IsNegativeSentiment(result, th, threshold_negative) ==
    IF ~result.ok THEN FALSE
    ELSE result.label = "negative"
         /\ result.confidence >= ThresholdUsed(th, threshold_negative)

NegStart(model, threshold_negative) ==
    [model |-> model, threshold_negative |-> threshold_negative,
     called |-> FALSE, th |-> NoThreshold, result |-> AnalysisFailed,
     ret |-> FALSE]

NegInit ==
    \E model \in SentimentModels, tn \in NegativeThresholds :
        neg = NegStart(model, tn)

is_negative_sentiment(empty, th, out) ==
    LET result == AnalyzeText(neg.model, neg.threshold_negative, empty, out)
    IN  /\ neg' = [neg EXCEPT
                     !.called = TRUE, !.th = th, !.result = result,
                     !.ret = IsNegativeSentiment(result, th, neg.threshold_negative)]
        /\ UNCHANGED exceptNeg

NegNext ==
    \E empty \in BOOLEAN, th \in SuppliedThresholds,
       out \in ModelOutcomes(neg.model) :
        is_negative_sentiment(empty, th, out)

\* ------------------------------------------------ STTService.ensure_model
\* the threads that call ensure_model
Threads == {1, 2, 3}

LockFreeAlways(l) == TRUE

\* with cls._instance_lock: the lock is taken only when no thread holds it
LockFree(l) == l.owner = 0

LoaderStart ==
    [model |-> FALSE,                       \* cls._model is not None
     dir |-> "absent",                      \* the model directory on disk
     owner |-> 0,                           \* the thread holding _instance_lock
     pc |-> [t \in Threads |-> "idle"],
     ret |-> [t \in Threads |-> "none"],    \* how the thread's last call ended
     calls |-> 0,                           \* history: calls started
     downloaded |-> 0,                      \* history: downloads completed
     constructed |-> 0,                     \* history: Model objects built
     failed |-> 0,                          \* history: calls that raised
     contended |-> FALSE]                   \* history: a caller found the lock held

LoaderInit == loader = LoaderStart

\* a thread calls ensure_model and reaches the with statement
CallEnsureModel(t) ==
    /\ loader.pc[t] = "idle"
    /\ loader.calls < MaxLoaderCalls
    /\ loader' = [loader EXCEPT
                    !.pc[t] = "wait", !.ret[t] = "none", !.calls = @ + 1,
                    !.contended = @ \/ loader.owner # 0]
    /\ UNCHANGED exceptLoader

\* the thread acquires the lock
Enter(t) ==
    /\ loader.pc[t] = "wait"
    /\ LockFree(loader)
    /\ loader' = [loader EXCEPT !.pc[t] = "check", !.owner = t]
    /\ UNCHANGED exceptLoader

\* if cls._model is not None: return
CheckModel(t) ==
    /\ loader.pc[t] = "check"
    /\ loader' = IF loader.model
                 THEN [loader EXCEPT !.pc[t] = "idle", !.ret[t] = "ok",
                                     !.owner = IF @ = t THEN 0 ELSE @]
                 ELSE [loader EXCEPT !.pc[t] = "download"]
    /\ UNCHANGED exceptLoader

\* _download_and_extract_model: nothing to do when the directory exists; else
\* the download and extraction succeed, raise before anything is extracted, or
\* raise with the directory half extracted
Download(t, outcome) ==
    /\ loader.pc[t] = "download"
    /\ loader' =
         IF loader.dir # "absent"
         THEN [loader EXCEPT !.pc[t] = "construct"]
         ELSE IF outcome = "ok"
         THEN [loader EXCEPT !.pc[t] = "construct", !.dir = "ready",
                             !.downloaded = @ + 1]
         ELSE [loader EXCEPT !.pc[t] = "idle", !.ret[t] = "raised",
                             !.dir = IF outcome = "partial" THEN "broken" ELSE "absent",
                             !.failed = @ + 1,
                             !.owner = IF @ = t THEN 0 ELSE @]
    /\ UNCHANGED exceptLoader

\* cls._model = Model(str(model_path)): the constructor returns or raises
Construct(t, ok) ==
    /\ loader.pc[t] = "construct"
    /\ loader' =
         IF ok /\ loader.dir = "ready"
         THEN [loader EXCEPT !.pc[t] = "idle", !.ret[t] = "ok",
                             !.model = TRUE, !.constructed = @ + 1,
                             !.owner = IF @ = t THEN 0 ELSE @]
         ELSE [loader EXCEPT !.pc[t] = "idle", !.ret[t] = "raised",
                             !.failed = @ + 1,
                             !.owner = IF @ = t THEN 0 ELSE @]
    /\ UNCHANGED exceptLoader

LoaderNext ==
    \E t \in Threads :
        \/ CallEnsureModel(t)
        \/ Enter(t)
        \/ CheckModel(t)
        \/ \E outcome \in {"ok", "fail", "partial"} : Download(t, outcome)
        \/ \E ok \in BOOLEAN : Construct(t, ok)

\* -------------------------------------------------- detailed_health_check
\* what the three probes can find
DatabaseOutcomes == {"connected", "disconnected", "raise"}
RedisOutcomes == {"pong", "raise"}
BotManagerOutcomes == {"bots", "missing", "raise"}

HealthStart ==
    [pc |-> "idle",
     status |-> "none",         \* health_status["status"]
     database |-> "none",       \* health_status["services"]["database"]
     redis |-> "none",
     bot_manager |-> "none",
     afterDatabase |-> "none",  \* history: the status the database check left
     requests |-> 0,            \* history: requests served
     reported |-> "none"]       \* the status of the last response

HealthInit == health = HealthStart

\* GET /health/detailed: health_status = {"status": "healthy", "services": {}}
BeginHealthCheck ==
    /\ health.pc \in {"idle", "done"}
    /\ health.requests < MaxRequests
    /\ health' = [HealthStart EXCEPT
                    !.pc = "database", !.status = "healthy",
                    !.requests = health.requests + 1,
                    !.reported = health.reported]
    /\ UNCHANGED exceptHealth

\* Check database
CheckDatabase(outcome) ==
    /\ health.pc = "database"
    /\ LET status == CASE outcome = "connected" -> health.status
                       [] outcome = "disconnected" -> "degraded"
                       [] OTHER -> "unhealthy"
       IN  health' = [health EXCEPT
                        !.pc = "redis",
                        !.database = CASE outcome = "connected" -> "healthy"
                                       [] outcome = "disconnected" -> "disconnected"
                                       [] OTHER -> "error",
                        !.status = status,
                        !.afterDatabase = status]
    /\ UNCHANGED exceptHealth

\* Check Redis: await redis_client.ping()
CheckRedis(outcome) ==
    /\ health.pc = "redis"
    /\ health' = [health EXCEPT
                    !.pc = "bot_manager",
                    !.redis = IF outcome = "pong" THEN "healthy" ELSE "error",
                    !.status = IF outcome = "pong" THEN @ ELSE "degraded"]
    /\ UNCHANGED exceptHealth

\* Check bot manager, then return health_status
CheckBotManager(outcome) ==
    /\ health.pc = "bot_manager"
    /\ health' = [health EXCEPT
                    !.pc = "done",
                    !.bot_manager = CASE outcome = "bots" -> "healthy"
                                      [] outcome = "missing" -> "not initialized"
                                      [] OTHER -> "error",
                    !.reported = health.status]
    /\ UNCHANGED exceptHealth

HealthNext ==
    \/ BeginHealthCheck
    \/ \E outcome \in DatabaseOutcomes : CheckDatabase(outcome)
    \/ \E outcome \in RedisOutcomes : CheckRedis(outcome)
    \/ \E outcome \in BotManagerOutcomes : CheckBotManager(outcome)

\* --------------------------------------------------------- AdvancedMeetBot
\* meeting URLs given to join_meeting: two valid ones and one that
\* _is_valid_meet_url rejects
MeetUrls == {"meet-1", "meet-2", "not-meet"}
IsValidMeetUrl(url) == url # "not-meet"

BotStart(driver) ==
    [driver |-> driver,            \* self.driver is set
     is_active |-> FALSE,          \* status.is_active
     current_meeting |-> "none",   \* status.current_meeting, "none" for None
     last_error |-> FALSE,         \* status.last_error is set
     ret |-> [op |-> "none", result |-> "none"],
     lostBy |-> "none",            \* history: how the last meeting was left or lost
     calls |-> 0]                  \* history: calls made

BotInit == \E driver \in BOOLEAN : bot = BotStart(driver)

\* join_meeting: outcome is what the browser does once the URL is accepted,
\* the join button clicked ("joined") or anything raising or failing
join_meeting(meeting_url, outcome) ==
    /\ bot.calls < MaxBotCalls
    /\ bot' =
         IF bot.driver /\ IsValidMeetUrl(meeting_url) /\ outcome = "joined"
         THEN [bot EXCEPT !.is_active = TRUE, !.current_meeting = meeting_url,
                          !.ret = [op |-> "join_meeting", result |-> "true"],
                          !.lostBy = "none", !.calls = @ + 1]
         ELSE [bot EXCEPT !.last_error = TRUE,
                          !.ret = [op |-> "join_meeting", result |-> "false"],
                          !.calls = @ + 1]
    /\ UNCHANGED exceptBot

\* monitor_meeting: the page shows the bot outside the meeting, shows an end
\* indicator, shows the meeting, or a probe raises
monitor_meeting(outcome) ==
    /\ bot.calls < MaxBotCalls
    /\ bot' =
         IF ~bot.driver \/ outcome \in {"not_in_meeting", "end_indicator"}
         THEN [bot EXCEPT !.is_active = FALSE,
                          !.ret = [op |-> "monitor_meeting", result |-> "ended"],
                          !.lostBy = "ended", !.calls = @ + 1]
         ELSE [bot EXCEPT !.ret = [op |-> "monitor_meeting",
                                   result |-> IF outcome = "active" THEN "active"
                                              ELSE "error"],
                          !.calls = @ + 1]
    /\ UNCHANGED exceptBot

\* what leave_meeting does to the bot: nothing when inactive; a leave button
\* is clicked; no button is clickable and the tab is closed; or a call raises
LeaveMeeting(b, outcome) ==
    IF ~b.is_active
    THEN [b EXCEPT !.ret = [op |-> "leave_meeting", result |-> "true"]]
    ELSE IF b.driver /\ outcome = "button"
    THEN [b EXCEPT !.is_active = FALSE, !.current_meeting = "none",
                   !.ret = [op |-> "leave_meeting", result |-> "true"],
                   !.lostBy = "button"]
    ELSE IF b.driver /\ outcome = "close_tab"
    THEN [b EXCEPT !.is_active = FALSE,
                   !.ret = [op |-> "leave_meeting", result |-> "true"],
                   !.lostBy = "close_tab"]
    ELSE [b EXCEPT !.ret = [op |-> "leave_meeting", result |-> "false"]]

leave_meeting(outcome) ==
    /\ bot.calls < MaxBotCalls
    /\ bot' = [LeaveMeeting(bot, outcome) EXCEPT !.calls = @ + 1]
    /\ UNCHANGED exceptBot

\* cleanup: leave_meeting when active, then driver.quit(), which can raise
cleanup(outcome, quits) ==
    /\ bot.calls < MaxBotCalls
    /\ bot' = [LeaveMeeting(bot, outcome) EXCEPT
                 !.driver = IF quits THEN FALSE ELSE @,
                 !.ret = [op |-> "cleanup", result |-> "none"],
                 !.calls = @ + 1]
    /\ UNCHANGED exceptBot

LeaveOutcomes == {"button", "close_tab", "raise"}

BotNext ==
    \/ \E url \in MeetUrls, outcome \in {"joined", "failed"} :
           join_meeting(url, outcome)
    \/ \E outcome \in {"not_in_meeting", "end_indicator", "active", "raise"} :
           monitor_meeting(outcome)
    \/ \E outcome \in LeaveOutcomes : leave_meeting(outcome)
    \/ \E outcome \in LeaveOutcomes, quits \in BOOLEAN : cleanup(outcome, quits)

\* -------------------------------------------------------- Session Registry
\* The repository holds no registry; create, close, append and the pipeline
\* task of a session are modelled from sections 3, 4.1 and 5 of the
\* specification.  A session is known by its place in reg.sessions; the
\* registry maps an id to that place, 0 when no session is registered.
SessionIds == {"m1", "m2"}

NewSession(id) ==
    [id |-> id,
     closed |-> FALSE,       \* the buffer is marked closed
     queue |-> <<>>,         \* the buffer's chunks
     task |-> "pop",         \* the pipeline task: "pop", "flush" or "exited"
     closing |-> FALSE,      \* close(id) waits for the task to exit
     removed |-> "no",       \* out of the registry: "no", "close" or "create"
     taken |-> <<>>,         \* history: the chunks the task consumed
     late |-> FALSE]         \* history: the task wrote after a close removed it

RegStart ==
    [entries |-> [id \in SessionIds |-> 0],
     sessions |-> <<>>,
     appends |-> 0,                         \* history: calls of append
     dropped |-> [id \in SessionIds |-> "no"],  \* history: last drop per id
     raised |-> FALSE]                      \* history: an append raised

RegInit == reg = RegStart

MayReleaseOnClose(s) == s.closing

\* close, second half: bookkeeping goes only after the task has exited
MayRelease(s) == s.closing /\ s.task = "exited"

AppendCreates(r, id, bytes) ==
    IF r.entries[id] = 0
    THEN [r EXCEPT !.sessions = Append(@, [NewSession(id) EXCEPT !.queue = <<bytes>>]),
                   !.entries[id] = Len(r.sessions) + 1]
    ELSE IF r.sessions[r.entries[id]].closed THEN r
    ELSE [r EXCEPT !.sessions[r.entries[id]].queue = Append(@, bytes)]

\* append(id, bytes): silently ignored without a registered session; else a
\* push, which a closed buffer refuses and the caller ignores
AppendTo(r, id, bytes) ==
    IF r.entries[id] = 0 THEN r
    ELSE IF r.sessions[r.entries[id]].closed THEN r
    ELSE [r EXCEPT !.sessions[r.entries[id]].queue = Append(@, bytes)]

\* create(id, sampleRate): a fresh session under id; a session already there
\* has its buffer closed and abandoned and leaves the registry
create(id) ==
    /\ Len(reg.sessions) < MaxSessions
    /\ LET old == reg.entries[id]
           kept == IF old = 0 THEN reg.sessions
                   ELSE [reg.sessions EXCEPT ![old].closed = TRUE,
                                             ![old].queue = <<>>,
                                             ![old].removed = "create"]
       IN  reg' = [reg EXCEPT !.sessions = Append(kept, NewSession(id)),
                              !.entries[id] = Len(reg.sessions) + 1]
    /\ UNCHANGED exceptReg

append(id, bytes) ==
    /\ reg.appends < MaxAppends
    /\ reg' = [AppendTo(reg, id, bytes) EXCEPT
                 !.appends = @ + 1,
                 !.dropped[id] =
                     IF reg.entries[id] # 0 THEN @
                     ELSE IF \E i \in DOMAIN reg.sessions :
                                reg.sessions[i].id = id
                          THEN "after stop" ELSE "before start"]
    /\ UNCHANGED exceptReg

\* close(id), first half ("stop" or connection loss): mark the buffer closed
StartClose(id) ==
    /\ reg.entries[id] # 0
    /\ ~reg.sessions[reg.entries[id]].closing
    /\ reg' = [reg EXCEPT !.sessions[reg.entries[id]].closed = TRUE,
                          !.sessions[reg.entries[id]].closing = TRUE]
    /\ UNCHANGED exceptReg

\* close(id), second half: release the registry entry
Release(id) ==
    /\ reg.entries[id] # 0
    /\ MayRelease(reg.sessions[reg.entries[id]])
    /\ reg' = [reg EXCEPT !.sessions[reg.entries[id]].removed = "close",
                          !.entries[id] = 0]
    /\ UNCHANGED exceptReg

\* the pipeline task of session i pops: a chunk goes to the recognizer and its
\* result into the session's state, or a closed and empty buffer ends the
\* stream; on an open and empty buffer the task stays suspended
TaskPop(i) ==
    /\ i \in DOMAIN reg.sessions
    /\ reg.sessions[i].task = "pop"
    /\ LET s == reg.sessions[i]
       IN  /\ s.queue # <<>> \/ s.closed
           /\ reg' = IF s.queue # <<>>
                     THEN [reg EXCEPT !.sessions[i].queue = Tail(s.queue),
                                      !.sessions[i].taken = Append(s.taken, Head(s.queue)),
                                      !.sessions[i].late = s.late \/ s.removed = "close"]
                     ELSE [reg EXCEPT !.sessions[i].task = "flush"]
    /\ UNCHANGED exceptReg

\* the final flush, after which the task exits
TaskFlush(i) ==
    /\ i \in DOMAIN reg.sessions
    /\ reg.sessions[i].task = "flush"
    /\ reg' = [reg EXCEPT !.sessions[i].task = "exited",
                          !.sessions[i].late = @ \/ reg.sessions[i].removed = "close"]
    /\ UNCHANGED exceptReg

RegNext ==
    \/ \E id \in SessionIds : create(id)
    \/ \E id \in SessionIds, bytes \in ChunkVals : append(id, bytes)
    \/ \E id \in SessionIds : StartClose(id)
    \/ \E id \in SessionIds : Release(id)
    \/ \E i \in 1..MaxSessions : TaskPop(i)
    \/ \E i \in 1..MaxSessions : TaskFlush(i)

\* ---------------------------------------------------------- specifications
\* a component nobody calls
TrackerIdle ==
    /\ TrackerInit
    /\ window_seconds = 2

SttIdle == stt = SttStart(<<>>)

Stt2Idle == stt2 = SttStart(<<>>)

MailIdle ==
    /\ MailInit
    /\ ~mail.client

WsIdle == ws = WsStart(TRUE)

BufIdle == BufInit

NegIdle == neg = NegStart("vader", -10)

LoaderIdle == LoaderInit

BotIdle == bot = BotStart(FALSE)

HealthIdle == HealthInit

RegIdle == RegInit

Init ==
    /\ TrackerInit /\ ScorerInit /\ SttInit /\ Stt2Init /\ MailInit
    /\ WsInit /\ BufInit /\ NegInit /\ LoaderInit /\ BotInit /\ HealthInit
    /\ RegInit

Next ==
    TrackerNext \/ TickBack \/ ScorerNext \/ SttNext \/ Stt2Next \/ MailNext
    \/ WsNext \/ BufNext \/ NegNext \/ LoaderNext \/ BotNext \/ HealthNext
    \/ RegNext

Spec == Init /\ [][Next]_vars

\* the components added to the pipeline, left as constructed
RestIdle == NegIdle /\ LoaderIdle /\ BotIdle /\ HealthIdle /\ RegIdle

\* each component alone, the others left as constructed
TrackerOnly ==
    /\ TrackerInit /\ ScorerInit /\ SttIdle /\ Stt2Idle /\ MailIdle
    /\ WsIdle /\ BufIdle /\ RestIdle
\* the tracker with the shorter window
TrackerBackOnly ==
    /\ TrackerInit /\ window_seconds = 1
    /\ ScorerInit /\ SttIdle /\ Stt2Idle /\ MailIdle
    /\ WsIdle /\ BufIdle /\ RestIdle
ScorerOnly ==
    /\ TrackerIdle /\ ScorerInit /\ SttIdle /\ Stt2Idle /\ MailIdle
    /\ WsIdle /\ BufIdle /\ RestIdle
SttOnly ==
    /\ TrackerIdle /\ ScorerInit /\ SttInit /\ Stt2Idle /\ MailIdle
    /\ WsIdle /\ BufIdle /\ RestIdle
SttPairOnly ==
    /\ TrackerIdle /\ ScorerInit /\ MailIdle /\ WsIdle /\ BufIdle /\ RestIdle
    /\ \E in \in SeqsUpTo(ChunkVals, MaxPairChunks) : stt = SttStart(in)
    /\ Stt2Init
MailOnly ==
    /\ TrackerIdle /\ ScorerInit /\ SttIdle /\ Stt2Idle /\ MailInit
    /\ WsIdle /\ BufIdle /\ RestIdle

WsOnly ==
    /\ TrackerIdle /\ ScorerInit /\ SttIdle /\ Stt2Idle /\ MailIdle
    /\ WsInit /\ BufIdle /\ RestIdle

BufOnly ==
    /\ TrackerIdle /\ ScorerInit /\ SttIdle /\ Stt2Idle /\ MailIdle
    /\ WsIdle /\ BufInit /\ RestIdle

\* the pipeline components, left as constructed
PipelineIdle ==
    /\ TrackerIdle /\ ScorerInit /\ SttIdle /\ Stt2Idle /\ MailIdle
    /\ WsIdle /\ BufIdle

NegOnly ==
    /\ PipelineIdle /\ NegInit /\ LoaderIdle /\ BotIdle /\ HealthIdle /\ RegIdle
LoaderOnly ==
    /\ PipelineIdle /\ NegIdle /\ LoaderInit /\ BotIdle /\ HealthIdle /\ RegIdle
BotOnly ==
    /\ PipelineIdle /\ NegIdle /\ LoaderIdle /\ BotInit /\ HealthIdle /\ RegIdle
HealthOnly ==
    /\ PipelineIdle /\ NegIdle /\ LoaderIdle /\ BotIdle /\ HealthInit /\ RegIdle
RegOnly ==
    /\ PipelineIdle /\ NegIdle /\ LoaderIdle /\ BotIdle /\ HealthIdle /\ RegInit

TrackerSpec == TrackerOnly /\ [][TrackerNext]_vars
\* the tracker under a wall clock that can be set back
TrackerBackSpec == TrackerBackOnly /\ [][TrackerNext \/ TickBack]_vars
ScorerSpec == ScorerOnly /\ [][ScorerNext]_vars
SttSpec == SttOnly /\ [][SttNext]_vars
SttPairSpec == SttPairOnly /\ [][SttNext \/ Stt2Next]_vars
MailSpec == MailOnly /\ [][MailNext]_vars
WsSpec == WsOnly /\ [][WsNext]_vars
\* the consumer keeps popping
BufSpec == BufOnly /\ [][BufNext]_vars /\ WF_vars(pop)
NegSpec == NegOnly /\ [][NegNext]_vars
LoaderSpec == LoaderOnly /\ [][LoaderNext]_vars
BotSpec == BotOnly /\ [][BotNext]_vars
HealthSpec == HealthOnly /\ [][HealthNext]_vars
RegSpec == RegOnly /\ [][RegNext]_vars

\* ------------------------------------------------------------- properties
\* the samples of s with timestamp >= t - width
Within(s, t, width) == SelectSeq(s, LAMBDA x : x[1] >= t - width)

\* the mean of the compounds of s as a fraction, summed through the order p
MeanThrough(s, p) ==
    <<SumValues([i \in 1..Len(s) |-> s[p[i]][2]]), Len(s)>>

AllAtMost(values, th) == \A i \in DOMAIN values : values[i] <= th
AllAbove(values, th) == \A i \in DOMAIN values : values[i] > th

\* s is the tail of `samples`
RetainedTail(s) ==
    /\ Len(s) <= Len(samples)
    /\ SubSeq(samples, Len(samples) - Len(s) + 1, Len(samples)) = s

\* C1 as stated: in every reachable state, whatever time has passed, every
\* retained sample has timestamp >= now - window_seconds.
C1_RetainedWithinWindowAlways ==
    \A i \in DOMAIN samples : samples[i][1] >= clock - window_seconds

\* C1 amended: right after add() or sustained_negative(), before any more time
\* passes, every retained sample has timestamp >= now - window_seconds.
C1_RetainedWithinWindowAfterEviction ==
    (evictedAt = clock) =>
        \A i \in DOMAIN samples : samples[i][1] >= clock - window_seconds

C1_Witness ==
    /\ evictedAt = clock
    /\ samples # <<>>
    /\ Len(samples) + 2 <= Len(added)

\* C2 as stated: sustained_negative returns true iff some sample lies within
\* the last duration_sec seconds and the mean of exactly those is <= threshold.
C2_TrueIffMeanOverDuration ==
    (ret.op = "sustained_negative") =>
        LET values == ValuesOf(Within(added, ret.at, ret.d))
        IN  ret.res <=> (values # <<>> /\ SumValues(values) <= ret.th * Len(values))

\* C2 amended: sustained_negative returns true iff some sample lies within the
\* last min(duration_sec, window_seconds) seconds and the mean of exactly those
\* is <= threshold; false when no sample lies within that lookback.
C2_TrueIffMeanOverTruncatedLookback ==
    (ret.op = "sustained_negative") =>
        LET values ==
                ValuesOf(Within(added, ret.at, Min(ret.d, window_seconds)))
        IN  ret.res <=> (values # <<>> /\ SumValues(values) <= ret.th * Len(values))

C2_Witness ==
    /\ ret.op = "sustained_negative"
    /\ ret.res
    /\ ret.d > window_seconds
    /\ Len(Within(added, ret.at, ret.d)) > Len(ret.used)

\* C3 as stated: average() returns the mean of the samples whose timestamps
\* lie within the retention window at the time of the call, 0 if there is none.
C3_AverageOverWindowAtCall ==
    (ret.op = "average") =>
        LET r == Within(added, ret.at, window_seconds)
        IN  IF r = <<>> THEN ret.avg = <<0, 1>>
            ELSE RatEq(ret.avg, MeanThrough(r, [i \in 1..Len(r) |-> i]))

\* C3 amended: average() returns the mean of the samples retained at the call,
\* which are those that were within the window at the last add() or
\* sustained_negative(); 0 if there is none; whatever the order of arrival.
C3_AverageOverRetained ==
    (ret.op = "average") =>
        LET r == Within(added, evictedAt, window_seconds)
        IN  IF r = <<>> THEN ret.avg = <<0, 1>>
            ELSE \A p \in Permutations(1..Len(r)) : RatEq(ret.avg, MeanThrough(r, p))

C3_Witness ==
    /\ ret.op = "average"
    /\ Len(samples) >= 2
    /\ samples[1][1] < ret.at - window_seconds
    /\ samples[1][2] # samples[2][2]

\* C4: add(compound) appends exactly one sample (now, compound) at the tail,
\* removes every sample older than now - window_seconds and no other, and the
\* sample just added is retained.
C4_AddAppendsAndEvicts ==
    [][(Len(added') = Len(added) + 1) =>
          LET s == added'[Len(added')]
          IN  /\ s[1] = clock
              /\ samples' = Within(Append(samples, s), clock, window_seconds)
              /\ samples' # <<>>
              /\ samples'[Len(samples')] = s]_vars

C4_Witness ==
    /\ ret.op = "add"
    /\ Len(samples) >= 2
    /\ Len(samples) < Len(added)

\* C5 as stated: after sustained_negative(threshold, duration_sec) with
\* duration_sec < window_seconds no sample older than duration_sec is retained.
C5_NothingOlderThanDurationRetained ==
    (ret.op = "sustained_negative" /\ ret.d < window_seconds) =>
        \A i \in DOMAIN samples : samples[i][1] >= ret.at - ret.d

\* C5 amended: sustained_negative evicts by window_seconds: after the call the
\* retained samples are exactly those no older than window_seconds, those older
\* than duration_sec among them too, and a following average() covers them all.
C5_EvictsByWindowNotDuration ==
    [][/\ (ret'.op = "sustained_negative") =>
              samples' = Within(added', ret'.at, window_seconds)
       /\ (ret.op = "sustained_negative" /\ ret'.op = "average") =>
              LET r == Within(added, ret.at, window_seconds)
              IN  IF r = <<>> THEN ret'.avg = <<0, 1>>
                  ELSE RatEq(ret'.avg, MeanThrough(r, [i \in 1..Len(r) |-> i]))]_vars

C5_Witness ==
    /\ ret.op = "sustained_negative"
    /\ ret.d < window_seconds
    /\ \E i \in DOMAIN samples : samples[i][1] < ret.at - ret.d

\* C6 as stated: if every sample added within the duration window has
\* compound <= threshold, sustained_negative returns true; once only samples
\* with compound > threshold are inside the duration window, it returns false.
C6_NegativeThenRecovered ==
    (ret.op = "sustained_negative") =>
        LET values == ValuesOf(Within(added, ret.at, ret.d))
        IN  /\ (values # <<>> /\ AllAtMost(values, ret.th)) => ret.res
            /\ (values # <<>> /\ AllAbove(values, ret.th)) => ~ret.res

\* C6 amended: the first half needs one of those samples to be no older than
\* window_seconds (so it is when window_seconds >= duration_sec).
C6_NegativeRetainedThenRecovered ==
    (ret.op = "sustained_negative") =>
        LET values == ValuesOf(Within(added, ret.at, ret.d))
            kept == Within(added, ret.at, Min(ret.d, window_seconds))
        IN  /\ (kept # <<>> /\ AllAtMost(values, ret.th)) => ret.res
            /\ (values # <<>> /\ AllAbove(values, ret.th)) => ~ret.res

C6_Witness ==
    /\ ret.op = "sustained_negative"
    /\ ~ret.res
    /\ Len(added) >= 3
    /\ \A i \in 1..(Len(added) - 1) :
           added[i][2] <= ret.th /\ added[i][1] < ret.at - ret.d
    /\ added[Len(added)][2] > ret.th
    /\ ret.used = <<added[Len(added)][2]>>

C8_LookbackTruncatedToWindow ==
    (ret.op = "sustained_negative") =>
        /\ ret.used = ValuesOf(Within(added, ret.at, Min(window_seconds, ret.d)))
        /\ (window_seconds >= ret.d) => RetainedTail(Within(added, ret.at, ret.d))

C8_Witness ==
    /\ ret.op = "sustained_negative"
    /\ ret.d > window_seconds
    /\ ret.used # <<>>
    /\ Len(ret.used) < Len(Within(added, ret.at, ret.d))
    /\ Len(samples) < Len(added)

\* C9: analyze_text returns the analyzer's compound unchanged with one label:
\* positive iff compound >= 0.05, negative iff compound <= -0.05, neutral
\* otherwise; above 0.2 is positive and below -0.2 is negative.
C9_LabelByThresholds ==
    score.called =>
        /\ score.given.has => score.compound = score.given.compound
        /\ score.label \in {"positive", "negative", "neutral"}
        /\ (score.label = "positive") <=> (score.compound >= 5)
        /\ (score.label = "negative") <=> (score.compound <= -5)
        /\ (score.label = "neutral") <=> (-5 < score.compound /\ score.compound < 5)
        /\ (score.compound > 20) => score.label = "positive"
        /\ (score.compound < -20) => score.label = "negative"

C9_Witness ==
    /\ score.called
    /\ score.given.has
    /\ score.compound = -5
    /\ score.label = "negative"

\* C10: the recognizer receives each supplied chunk once and in the order
\* supplied, results are yielded in the order of their chunks, and the result
\* of a chunk is yielded before the next chunk is pulled.
C10_ChunksAndResultsInOrder ==
    LET pulled == Len(stt.input) - Len(stt.rest)
    IN  /\ Len(stt.accepted) <= Len(stt.input)
        /\ stt.accepted = SubSeq(stt.input, 1, Len(stt.accepted))
        /\ Len(stt.accepted) = IF stt.pc = "accept" THEN pulled - 1 ELSE pulled
        /\ (stt.pc = "accept") => stt.chunk = stt.input[pulled]
        /\ (stt.pc = "done") => stt.accepted = stt.input
        /\ \A i, j \in DOMAIN stt.yielded :
               (i < j) => /\ stt.yielded[i].src # 0
                          /\ stt.yielded[j].src = 0
                               \/ stt.yielded[i].src < stt.yielded[j].src
        /\ \A i \in DOMAIN stt.yielded : stt.yielded[i].src <= pulled
        /\ (stt.pc \in {"accept", "flush", "done"}) =>
               Len(stt.yielded) = stt.produced

C10_Witness ==
    /\ stt.pc = "done"
    /\ Len(stt.input) >= 3
    /\ stt.input[1] # stt.input[2]
    /\ Len(stt.yielded) >= 3

\* C11: FinalResult is called once, and only after every supplied chunk has
\* been given to the recognizer; a non-empty flush text is yielded as a final
\* result, the last one; a blank flush yields nothing; after the flush (and
\* its result, if any) the call has ended and takes no further step.
C11_FlushOnceAfterAllChunks ==
    LET n == Len(stt.yielded)
        flushYielded == n > 0 /\ stt.yielded[n].src = 0
    IN  /\ stt.flushed \in {0, 1}
        /\ (stt.flushed = 1) => /\ stt.rest = <<>>
                                /\ stt.accepted = stt.input
                                /\ stt.pc \in {"yield", "suspended", "done"}
        /\ (stt.pc = "flush") => stt.flushed = 0 /\ stt.accepted = stt.input
        /\ (stt.pc = "done") => stt.flushed = 1
        /\ (stt.pc = "failed") => stt.flushed = 0
        /\ (stt.flushed = 0) => stt.flushOut = "none" /\ ~flushYielded
        /\ (stt.flushed = 1 /\ stt.pc = "yield") =>
               /\ stt.flushOut = "text"
               /\ stt.pending.src = 0
               /\ stt.pending.is_final
               /\ stt.pending.text # <<>>
        /\ (stt.flushed = 1 /\ stt.pc \in {"suspended", "done"}) =>
               /\ (stt.flushOut = "text") <=> flushYielded
               /\ (stt.flushOut = "blank") <=> ~flushYielded
               /\ (stt.pc = "suspended") => flushYielded
        /\ flushYielded => stt.yielded[n].is_final /\ stt.yielded[n].text # <<>>
        /\ (stt.pc = "done") => ~ENABLED SttNext

C11_Witness ==
    /\ stt.pc = "done"
    /\ stt.flushed = 1
    /\ Len(stt.input) >= 2
    /\ Len(stt.yielded) >= 2
    /\ stt.yielded[Len(stt.yielded)].src = 0

\* C12: every yielded result has a text with at least one character left
\* after stripping; a recognizer output that is blank (no JSON, no text key,
\* or whitespace only) yields nothing, so the results yielded are exactly as
\* many as the non-blank outputs read.
C12_YieldedTextsNonEmpty ==
    /\ \A i \in DOMAIN stt.yielded :
           /\ stt.yielded[i].text # <<>>
           /\ Strip(stt.yielded[i].text) = stt.yielded[i].text
    /\ (stt.pc = "yield") => /\ stt.pending.text # <<>>
                             /\ Strip(stt.pending.text) = stt.pending.text
    /\ Len(stt.yielded) + (IF stt.pc = "yield" THEN 1 ELSE 0)
           = stt.outputs - stt.blank

C12_Witness ==
    /\ stt.pc = "done"
    /\ stt.blank >= 2
    /\ Len(stt.yielded) >= 1
    /\ stt.flushOut = "blank"

\* C13: a call that fails (the recognizer raises) ends there: it yields
\* nothing more, never flushes and takes no further step; the step that fails
\* leaves the other running call as it was, and that call's steps never
\* touch the failed one.
C13_FailureEndsOnlyThatCall ==
    [][/\ (stt.pc # "failed" /\ stt'.pc = "failed") =>
              /\ stt2' = stt2
              /\ stt'.yielded = stt.yielded
              /\ stt'.flushed = 0
       /\ (stt2.pc # "failed" /\ stt2'.pc = "failed") =>
              /\ stt' = stt
              /\ stt2'.yielded = stt2.yielded
              /\ stt2'.flushed = 0
       /\ (stt.pc = "failed") => stt' = stt
       /\ (stt2.pc = "failed") => stt2' = stt2]_vars

C13_Witness ==
    /\ stt.pc = "failed"
    /\ Len(stt.accepted) = 1
    /\ stt2.pc = "done"
    /\ Len(stt2.input) = 1
    /\ stt2.accepted = stt2.input
    /\ Len(stt2.yielded) = 2

\* an alert went out for session m, or to the recipients r, less than the
\* rate limit ago
RecentlyFor(m) ==
    mail.lastFor[m] >= 0 /\ mail.now - mail.lastFor[m] < RateLimitUnits
RecentlyTo(r) ==
    /\ mail.lastTo[RecipientSet(r)] >= 0
    /\ mail.now - mail.lastTo[RecipientSet(r)] < RateLimitUnits

\* the step is the return of call number n with the given result
Returns(n, result) ==
    /\ mail.ret.call # n
    /\ mail'.ret = [call |-> n, result |-> result]

\* C14: whatever the interleaving of the calls, no alert goes out for a
\* session less than the cooldown after another alert for the same session.
C14_NoTwoAlertsWithinCooldown ==
    [][\A t \in Tasks :
          (mail.task[t].pc = "sending" /\ Returns(mail.task[t].call, "sent"))
              => ~RecentlyFor(mail.task[t].session)]_vars

C16_LimitedOnlyBySameSession ==
    [][\A t \in Tasks, m \in MailSessions, r \in RecipientLists, rendered \in BOOLEAN :
          (send_sentiment_alert(t, m, r, rendered) /\ Returns(mail.calls + 1, "limited"))
              => RecentlyFor(m)]_vars

\* C16: the cooldown is kept per set of recipients, not per session: a call
\* is turned away exactly when an alert went out to the same recipients, in
\* whatever order they are listed and for whatever session, less than the
\* cooldown ago; an alert to other recipients never turns a call away.
C16_LimitedByRecipientsNotSession ==
    [][\A t \in Tasks, m \in MailSessions, r \in RecipientLists, rendered \in BOOLEAN :
          (send_sentiment_alert(t, m, r, rendered) /\ mail.client)
              => (Returns(mail.calls + 1, "limited") <=> RecentlyTo(r))]_vars

C16_Witness ==
    /\ mail.ret = [call |-> 2, result |-> "limited"]
    /\ mail.calls = 2
    /\ mail.total_sent = 1
    /\ mail.lastFor["m1"] = 0
    /\ mail.lastFor["m2"] = -1
    /\ mail.lastTo[{"a", "b"}] = 0
    /\ mail.now = 1
    /\ \A t \in Tasks : ~RecentlyFor("m2") /\ mail.task[t].pc = "idle"

\* C17: a call whose rendering or delivery fails returns False: it counts one
\* failure, records the error, calls send_message no second time and leaves
\* the rate limit table as it was, so that a later call is turned away or
\* let through exactly as if the failed one had not been made; no other step
\* of send_sentiment_alert counts a failure.
C17_FailureCountedNotRetried ==
    [][/\ (mail'.ret.call # mail.ret.call /\ mail'.ret.result = "failed")
              => /\ mail'.total_failed = mail.total_failed + 1
                 /\ mail'.last_error
                 /\ mail'.sends = mail.sends
                 /\ mail'.total_sent = mail.total_sent
                 /\ mail'.rate_limit = mail.rate_limit
                 /\ \A t \in Tasks : mail'.task[t] \in {mail.task[t], NoTask}
       /\ (mail'.last_error # mail.last_error
             \/ (mail'.total_failed # mail.total_failed /\ mail'.others = mail.others))
              => /\ mail'.ret.call # mail.ret.call
                 /\ mail'.ret.result = "failed"
       /\ \A t \in Tasks, m \in MailSessions, r \in RecipientLists :
              (send_sentiment_alert(t, m, r, TRUE) /\ mail.client /\ mail.last_error)
              => (mail'.task[t].pc = "sending" <=> ~RecentlyTo(r))]_vars

C17_Witness ==
    /\ ~mail.overlapped
    /\ mail.calls = 2
    /\ mail.sends = 2
    /\ mail.total_failed = 1
    /\ mail.last_error
    /\ mail.total_sent = 1
    /\ mail.ret = [call |-> 2, result |-> "sent"]
    /\ mail.now = 0

\* C18: a WebSocketDisconnect or other transport exception raised while the
\* client is registered, while a frame is awaited or while a heartbeat is
\* sent is taken by the except clause and never leaves the endpoint; on every
\* path after accept the endpoint ends through finally, where the client is
\* removed from the bot manager once, and it is removed nowhere else.
C18_TransportErrorsEndInTeardown ==
    /\ ws.removed <= 1
    /\ ws.added <= 1
    /\ (ws.pc \notin {"closed"}) => ws.removed = 0 /\ ws.propagated = "none"
    /\ (ws.pc = "closed" /\ ws.propagated # "accept") =>
           ws.removed = (IF ws.has_manager THEN 1 ELSE 0)
    /\ (ws.pc = "closed" /\ ws.propagated = "accept") =>
           ws.removed = 0 /\ ws.added = 0
    /\ (ws.errorKind \in TransportErrors) =>
           /\ ws.caught
           /\ ws.errorAt \in {"register", "receive", "send"}
           /\ ws.pc \in {"finally", "closed"}
           /\ ws.propagated \in {"none", "remove"}
    /\ (ws.propagated \in {"register", "receive", "send"}) =>
           ws.errorKind = "cancel"

C18_Witness ==
    /\ ws.pc = "closed"
    /\ ws.has_manager
    /\ ws.errorAt = "send"
    /\ ws.errorKind = "disconnect"
    /\ ws.frames >= 1
    /\ ws.beats >= 1
    /\ ws.removed = 1
    /\ ws.propagated = "none"

\* what the consumer has received and what is still queued are, together, what
\* was pushed, in the order pushed
DrainedInOrder ==
    /\ buf.popped \o buf.queue = buf.pushed
    /\ buf.closed => Len(buf.pushed) = buf.atClose

\* C19: the consumer receives the chunks pushed before the close, in the
\* order pushed and no other; end-of-stream is signalled once, only when the
\* buffer is closed and all of them have been received; a pop on a closed
\* buffer is never left suspended, and once the buffer is closed a consumer
\* that keeps popping comes to the end-of-stream.
C19_ClosedBufferDrainsThenEnds ==
    /\ [](/\ DrainedInOrder
          /\ buf.eos \in {0, 1}
          /\ (buf.eos = 1) <=> (buf.consumer = "ended")
          /\ (buf.eos = 1) => /\ buf.closed
                              /\ buf.queue = <<>>
                              /\ buf.popped = buf.pushed
          /\ (buf.closed /\ buf.consumer # "ended") => ENABLED pop)
    /\ (buf.closed ~> (buf.eos = 1))

C19_Witness ==
    /\ buf.eos = 1
    /\ buf.atClose = 2
    /\ Len(buf.popped) = 2
    /\ buf.popped[1] # buf.popped[2]
    /\ buf.refused >= 1

\* C25: the results yielded are at most one per accepted chunk and at most
\* one for the flush, hence at most chunks + 1; the result of a chunk is
\* final exactly when AcceptWaveform answered true for that chunk, the flush
\* result is final, every other result is partial.
C25_OneResultPerChunkFinalOnUtteranceEnd ==
    LET results == IF stt.pc = "yield"
                   THEN Append(stt.yielded, stt.pending) ELSE stt.yielded
    IN  /\ Len(results) <= Len(stt.accepted) + stt.flushed
        /\ Len(results) <= Len(stt.input) + 1
        /\ \A i, j \in DOMAIN results :
               (results[i].src = results[j].src) => i = j
        /\ \A i \in DOMAIN results :
               /\ results[i].src \in 0..Len(stt.accepted)
               /\ (results[i].src = 0) => stt.flushed = 1
               /\ results[i].is_final <=>
                      (results[i].src = 0 \/ results[i].src \in stt.ends)

C25_Witness ==
    /\ stt.pc = "done"
    /\ Len(stt.input) = 3
    /\ Len(stt.yielded) = 4
    /\ stt.yielded[1].is_final
    /\ ~stt.yielded[2].is_final
    /\ stt.yielded[4].is_final
    /\ stt.ends = {1, 3}

\* C26: an output that is no JSON, be it of Result, PartialResult or
\* FinalResult, yields nothing and ends nothing: after it the loop goes on
\* with the chunks that remain, and after the flush the call ends normally.
C26_InvalidJsonIsEmptyText ==
    [][/\ \A outcome \in {"final", "partial"}, json \in RecognizerJson :
              (AcceptWaveform(outcome, json) /\ ~json.valid)
              => /\ stt'.pc = "loop"
                 /\ stt'.yielded = stt.yielded
                 /\ stt'.pending = NoResult
                 /\ stt'.rest = stt.rest
                 /\ stt'.flushed = 0
       /\ \A json \in RecognizerJson :
              (FinalResult(json) /\ ~json.valid)
              => /\ stt'.pc = "done"
                 /\ stt'.yielded = stt.yielded
                 /\ stt'.flushed = 1
       /\ (stt'.invalid # stt.invalid)
              => stt'.pc \in {"loop", "done"} /\ stt'.yielded = stt.yielded]_vars

C26_Witness ==
    /\ stt.pc = "done"
    /\ stt.invalid = 3
    /\ Len(stt.input) = 3
    /\ stt.accepted = stt.input
    /\ Len(stt.yielded) = 1
    /\ stt.yielded[1].src = 3
    /\ stt.ends = {1}

\* C28: a call of send_sentiment_alert that returns without a delivery (no
\* mail client, rate limited, rendering or delivery failed) leaves the
\* rate-limit table, total_sent and alerts_sent as they were; the table and
\* alerts_sent change only in the step in which a delivery has succeeded,
\* which writes the time under the key of its recipients; and alerts_sent
\* never exceeds total_sent.
C28_OnlyDeliveryStartsCooldown ==
    /\ [](mail.alerts_sent <= mail.total_sent)
    /\ [][/\ \A result \in {"unconfigured", "limited", "failed"} :
                 (mail'.ret.call # mail.ret.call /\ mail'.ret.result = result)
                 => /\ mail'.rate_limit = mail.rate_limit
                    /\ mail'.total_sent = mail.total_sent
                    /\ mail'.alerts_sent = mail.alerts_sent
          /\ (mail'.rate_limit # mail.rate_limit \/ mail'.alerts_sent # mail.alerts_sent)
                 => \E t \in Tasks :
                        /\ mail.task[t].pc = "sending"
                        /\ Returns(mail.task[t].call, "sent")
                        /\ mail'.rate_limit =
                               [mail.rate_limit EXCEPT
                                   ![<<"sentiment_alert",
                                       RecipientSet(mail.task[t].recipients)>>] = mail.now]
                        /\ mail'.alerts_sent = mail.alerts_sent + 1
                        /\ mail'.total_sent = mail.total_sent + 1]_vars

C28_Witness ==
    /\ mail.calls = 2
    /\ mail.sends = 2
    /\ mail.ret = [call |-> 2, result |-> "sent"]
    /\ mail.total_failed = 1
    /\ mail.alerts_sent = 1
    /\ mail.total_sent = 2
    /\ mail.summaries_sent = 1
    /\ mail.rate_limit[<<"sentiment_alert", {"c"}>>] = 1
    /\ mail.rate_limit[<<"sentiment_alert", {"a", "b"}>>] = -1
    /\ ~mail.overlapped
    /\ mail.now = 1

\* C21: a session taken out of the registry by close had its buffer marked
\* closed, its pipeline task saw end-of-stream, made the final flush and
\* exited before the entry was released; no task ever wrote to the state of a
\* session that a close had already removed.
C21_ReleasedOnlyAfterTaskExit ==
    \A i \in DOMAIN reg.sessions :
        LET s == reg.sessions[i]
        IN  /\ ~s.late
            /\ (s.task # "pop") => s.closed
            /\ (s.removed = "close") =>
                   /\ s.closed /\ s.closing
                   /\ s.task = "exited"
                   /\ s.queue = <<>>
                   /\ reg.entries[s.id] # i

C21_Witness ==
    \E i \in DOMAIN reg.sessions :
        /\ reg.sessions[i].removed = "close"
        /\ reg.sessions[i].task = "exited"
        /\ Len(reg.sessions[i].taken) = 2
        /\ reg.entries[reg.sessions[i].id] = 0

\* C22: append(id, bytes) for an id without a registered session raises
\* nothing, registers no session and leaves every session and buffer as it was.
C22_AppendWithoutSessionIsNoOp ==
    [][\A id \in SessionIds, bytes \in ChunkVals :
          (append(id, bytes) /\ reg.entries[id] = 0) =>
              /\ reg'.entries = reg.entries
              /\ reg'.sessions = reg.sessions
              /\ ~reg'.raised]_vars

C22_Witness ==
    /\ reg.dropped["m1"] = "after stop"
    /\ reg.dropped["m2"] = "before start"
    /\ reg.entries["m1"] = 0
    /\ reg.entries["m2"] # 0
    /\ Len(reg.sessions) = 2

\* C23 as stated: is_negative_sentiment returns true iff the label is NEGATIVE
\* and the confidence is >= the threshold the caller supplied, 0.0 included,
\* the configured default standing in only for a missing threshold; a failed
\* analysis gives False.
C23_NegativeIffAtSuppliedThreshold ==
    neg.called =>
        IF ~neg.result.ok THEN neg.ret = FALSE
        ELSE neg.ret <=>
                 /\ neg.result.label = "negative"
                 /\ neg.result.confidence >=
                        (IF neg.th.given THEN neg.th.value
                         ELSE Abs(neg.threshold_negative))

\* the samples run from head to tail by non-decreasing timestamp
Ordered(s) == \A i, j \in DOMAIN s : (i <= j) => s[i][1] <= s[j][1]

\* C24: while the clock has never stepped backwards the retained samples are
\* ordered by timestamp, and right after an eviction none is older than the
\* window.
C24_OrderedWhileClockMonotonic ==
    ~backward =>
        /\ Ordered(samples)
        /\ (evictedAt = clock) =>
               \A i \in DOMAIN samples : samples[i][1] >= clock - window_seconds

\* after a step backwards: the samples are out of order and, right after an
\* eviction, a sample older than the window is retained behind a newer head
C24_Witness ==
    /\ backward
    /\ ~Ordered(samples)
    /\ evictedAt = clock
    /\ ret.op = "sustained_negative"
    /\ samples[1][1] >= clock - window_seconds
    /\ \E i \in DOMAIN samples : samples[i][1] < clock - window_seconds

\* C27: under every interleaving the model is downloaded at most once and
\* constructed at most once, one thread at a time is inside the lock, a call
\* that returned normally finds the model set, the model is set by nothing but
\* a successful construction, and a call that finds the model unset goes on to
\* load it.
C27_ModelLoadedAtMostOnce ==
    /\ [](/\ loader.downloaded <= 1
          /\ loader.constructed <= 1
          /\ loader.model <=> loader.constructed = 1
          /\ \A t \in Threads : (loader.ret[t] = "ok") => loader.model
          /\ \A t, u \in Threads :
                 (loader.pc[t] \in {"check", "download", "construct"}
                  /\ loader.pc[u] \in {"check", "download", "construct"}) => t = u)
    /\ [][\A t \in Threads :
            /\ (loader'.ret[t] = "raised" /\ loader.ret[t] # "raised")
                   => loader'.model = loader.model
            /\ (CheckModel(t) /\ ~loader.model) => loader'.pc[t] = "download"]_vars

C27_Witness ==
    /\ loader.failed = 2
    /\ loader.constructed = 1
    /\ loader.downloaded = 1
    /\ loader.contended
    /\ loader.calls = 4
    /\ \E t, u \in Threads : loader.ret[t] = "raised" /\ loader.ret[u] = "ok"
    /\ \A t \in Threads : loader.pc[t] = "idle"

\* C29 as stated: once the bot has left or lost a meeting and is inactive,
\* current_meeting is None; the bot is active only from a successful
\* join_meeting to the next leave or detected end.
C29_InactiveHasNoMeeting ==
    /\ (~bot.is_active /\ bot.lostBy # "none") => bot.current_meeting = "none"
    /\ bot.is_active => (bot.lostBy = "none" /\ bot.current_meeting # "none")

\* the severity of a status
Rank(status) ==
    CASE status = "unhealthy" -> 2 [] status = "degraded" -> 1 [] OTHER -> 0

\* C30 as stated: when the response goes out, a status the database check set
\* to 'unhealthy' is still 'unhealthy', no later check has improved the status,
\* and the status is 'healthy' only if every check passed.
C30_StatusNeverImproves ==
    (health.pc = "done") =>
        /\ Rank(health.status) >= Rank(health.afterDatabase)
        /\ (health.afterDatabase = "unhealthy") => health.reported = "unhealthy"
        /\ (health.reported = "healthy") =>
               /\ health.database = "healthy"
               /\ health.redis = "healthy"
               /\ health.bot_manager = "healthy"

====
